---- MODULE Spec2Model ----
(***************************************************************************)
(* Expense tracker (src/main.py): one SQLite table `expenses` and the      *)
(* tools that read and write it.  Text is modelled as it is stored and     *)
(* compared: a date string is the sequence of its character codes, so      *)
(* that strptime's parsing and SQLite's BINARY text comparison are both    *)
(* computed and can disagree.  Amounts are integers (exactly               *)
(* representable REAL values).                                             *)
(***************************************************************************)
EXTENDS Integers, Sequences, FiniteSets, TLC

(* ------------------------------ bounds -------------------------------- *)

\* number of INSERTs a behaviour may perform (caps the AUTOINCREMENT counter)
MaxAdds == 2

\* largest LIMIT argument tried by top_spending_categories
MaxLimit == 2

\* largest budget limit tried by budget_alert
MaxBudget == 3

(* ------------------------------- text --------------------------------- *)

\* character codes of '-', '0' and ' '
Dash == 45

Zero == 48

Space == 32

\* a literal: digits 0..9 stand for themselves, anything else for '-'
Lit(cs) == [i \in 1..Len(cs) |-> IF cs[i] \in 0..9 THEN Zero + cs[i] ELSE Dash]

IsDigit(c) == c \in Zero..(Zero + 9)

DigitVal(c) == c - Zero

RECURSIVE Str(_)
\* str(n) for a natural number n
Str(n) == IF n < 10 THEN <<Zero + n>> ELSE Str(n \div 10) \o <<Zero + (n % 10)>>

RECURSIVE Zfill(_, _)
\* s.zfill(w)
Zfill(s, w) == IF Len(s) >= w THEN s ELSE Zfill(<<Zero>> \o s, w)

\* SQLite BINARY collation: memcmp on the common prefix, then the length
TextLess(a, b) ==
  \/ \E i \in 1..Len(a) :
       /\ i <= Len(b)
       /\ \A j \in 1..(i - 1) : a[j] = b[j]
       /\ a[i] < b[i]
  \/ /\ Len(a) < Len(b)
     /\ \A j \in 1..Len(a) : a[j] = b[j]

TextLeq(a, b) == a = b \/ TextLess(a, b)

(* ------------------------ datetime.strptime --------------------------- *)

\* %m is (1[0-2]|0[1-9]|[1-9]) and must be followed by '-': the number of
\* characters it consumes at position p of s, 0 when it does not match
MonthLen(s, p) ==
  IF /\ p + 2 <= Len(s)
     /\ \/ s[p] = Zero + 1 /\ s[p + 1] \in Zero..(Zero + 2)
        \/ s[p] = Zero /\ s[p + 1] \in (Zero + 1)..(Zero + 9)
     /\ s[p + 2] = Dash
  THEN 2
  ELSE IF /\ p + 1 <= Len(s)
          /\ s[p] \in (Zero + 1)..(Zero + 9)
          /\ s[p + 1] = Dash
       THEN 1
       ELSE 0

\* %d is (3[0-1]|[1-2]\d|0[1-9]|[1-9]| [1-9]), first alternative that matches
DayLen(s, p) ==
  IF /\ p + 1 <= Len(s)
     /\ \/ s[p] = Zero + 3 /\ s[p + 1] \in Zero..(Zero + 1)
        \/ s[p] \in (Zero + 1)..(Zero + 2) /\ IsDigit(s[p + 1])
        \/ s[p] = Zero /\ s[p + 1] \in (Zero + 1)..(Zero + 9)
  THEN 2
  ELSE IF p <= Len(s) /\ s[p] \in (Zero + 1)..(Zero + 9)
       THEN 1
       ELSE IF /\ p + 1 <= Len(s)
               /\ s[p] = Space
               /\ s[p + 1] \in (Zero + 1)..(Zero + 9)
            THEN 2
            ELSE 0

RECURSIVE Num(_)
\* the number a run of digits (or a space and a digit) denotes
Num(ds) ==
  IF Len(ds) = 0 THEN 0
  ELSE 10 * Num(SubSeq(ds, 1, Len(ds) - 1))
       + (IF IsDigit(ds[Len(ds)]) THEN DigitVal(ds[Len(ds)]) ELSE 0)

IsLeap(y) == (y % 4 = 0 /\ y % 100 # 0) \/ y % 400 = 0

DaysInMonth(y, m) ==
  IF m \in {4, 6, 9, 11} THEN 30
  ELSE IF m = 2 THEN (IF IsLeap(y) THEN 29 ELSE 28)
  ELSE 31

\* the regular expression of "%Y-%m-%d" matches a prefix of s and nothing
\* is left over
Matches(s) ==
  /\ Len(s) >= 5
  /\ \A i \in 1..4 : IsDigit(s[i])
  /\ s[5] = Dash
  /\ MonthLen(s, 6) > 0
  /\ DayLen(s, 7 + MonthLen(s, 6)) > 0
  /\ Len(s) = 6 + MonthLen(s, 6) + DayLen(s, 7 + MonthLen(s, 6))

\* the calendar date strptime builds from a string that Matches
Parsed(s) ==
  LET ml == MonthLen(s, 6)
      dl == DayLen(s, 7 + ml)
  IN  [y |-> Num(SubSeq(s, 1, 4)),
       m |-> Num(SubSeq(s, 6, 5 + ml)),
       d |-> Num(SubSeq(s, 7 + ml, 6 + ml + dl))]

\* validate_date(date_str) returns normally (does not raise ValueError)
ValidDate(s) ==
  /\ Matches(s)
  /\ Parsed(s).y >= 1
  /\ Parsed(s).d <= DaysInMonth(Parsed(s).y, Parsed(s).m)

(* ------------------------- optional arguments ------------------------- *)

\* a keyword argument left at its default None, or given the value v
None == << >>

Some(v) == <<v>>

\* Python truth value of an argument of update_expense: None, 0, "" are false
Truthy(field, arg) ==
  /\ arg # None
  /\ CASE field = "date" -> arg[1] # << >>
       [] field = "amount" -> arg[1] # 0
       [] OTHER -> arg[1] # ""

(* ------------------------------- inputs ------------------------------- *)

Feb01 == Lit(<<2, 0, 2, 4, 10, 0, 2, 10, 0, 1>>)

Feb28 == Lit(<<2, 0, 2, 4, 10, 0, 2, 10, 2, 8>>)

Feb31 == Lit(<<2, 0, 2, 4, 10, 0, 2, 10, 3, 1>>)

Mar01 == Lit(<<2, 0, 2, 4, 10, 0, 3, 10, 0, 1>>)

Mar31 == Lit(<<2, 0, 2, 4, 10, 0, 3, 10, 3, 1>>)

\* "2024-3-1", "2024-3-5", "2024-3-9": accepted by strptime, not zero padded
Mar1u == Lit(<<2, 0, 2, 4, 10, 3, 10, 1>>)

Mar5u == Lit(<<2, 0, 2, 4, 10, 3, 10, 5>>)

Mar9u == Lit(<<2, 0, 2, 4, 10, 3, 10, 9>>)

AddDates == {Feb28, Mar5u, Mar31, Feb31}

AddAmounts == {1, 2}

AddCategories == {"Food", "Rent"}

AddSubcategories == {None}

AddNotes == {None}

UpdateArgs ==
  [date : {None, Some(<< >>), Some(Feb31), Some(Mar31)},
   amount : {None, Some(0), Some(2)},
   category : {None, Some(""), Some("Rent")},
   subcategory : {None, Some("")},
   note : {None, Some("")}]

Ids == 1..MaxAdds

\* (start_date, end_date) pairs: padded, mixed, unpadded, and an invalid end
Ranges == {<<Mar01, Mar31>>, <<Feb01, Mar9u>>, <<Mar1u, Mar9u>>, <<Feb01, Feb31>>}

SummarizeCategories == {None, Some(""), Some("Food")}

Years == {2024}

Months == {2, 3, 12}

Limits == (-1)..MaxLimit

Budgets == 0..MaxBudget

(* -------------------------------- state ------------------------------- *)

VARIABLES
  store,    \* the rows of table expenses
  seq,      \* sqlite_sequence.seq of table expenses (AUTOINCREMENT)
  issued,   \* the ids add_expense has returned, oldest first
  call,     \* the tool call that produced this state, with its arguments
  result,   \* what that call returned
  prev      \* the rows of the table when that call began

vars == <<store, seq, issued, call, result, prev>>

(* ------------------------------ the table ----------------------------- *)

MaxOf(S) == CHOOSE x \in S : \A y \in S : y <= x

RowIds(rows) == {r.id : r \in rows}

\* a plain INTEGER PRIMARY KEY: one more than the largest rowid now stored
NextRowidOfStoredRows(rows, sq) == MaxOf({0} \cup RowIds(rows)) + 1

\* INTEGER PRIMARY KEY AUTOINCREMENT: one more than the largest rowid the
\* table has ever held
NextRowid(rows, sq) == MaxOf({sq} \cup RowIds(rows)) + 1

\* the parameter tuple with category and subcategory in each other's place
InsertRowColumnsSwapped(rows, sq, date, amount, category, subcategory, note) ==
  rows \cup {[id |-> NextRowid(rows, sq), date |-> date, amount |-> amount,
              category |-> subcategory, subcategory |-> category,
              note |-> note]}

\* INSERT INTO expenses(date, amount, category, subcategory, note)
InsertRow(rows, sq, date, amount, category, subcategory, note) ==
  rows \cup {[id |-> NextRowid(rows, sq), date |-> date, amount |-> amount,
              category |-> category, subcategory |-> subcategory,
              note |-> note]}

\* UPDATE expenses SET <the truthy arguments> WHERE id=?
UpdateRows(rows, id, args) ==
  {IF r.id # id THEN r
   ELSE [id |-> r.id,
         date |-> IF Truthy("date", args.date) THEN args.date[1] ELSE r.date,
         amount |-> IF Truthy("amount", args.amount)
                    THEN args.amount[1] ELSE r.amount,
         category |-> IF Truthy("category", args.category)
                      THEN args.category[1] ELSE r.category,
         subcategory |-> IF Truthy("subcategory", args.subcategory)
                         THEN args.subcategory[1] ELSE r.subcategory,
         note |-> IF Truthy("note", args.note) THEN args.note[1] ELSE r.note]
   : r \in rows}

\* DELETE FROM expenses WHERE id<=?
DeleteRowsUpTo(rows, id) == {r \in rows : r.id > id}

\* DELETE FROM expenses WHERE id=?
DeleteRows(rows, id) == {r \in rows : r.id # id}

\* SELECT * FROM expenses WHERE id=?
SelectById(rows, id) == {r \in rows : r.id = id}

(* ------------------------------- results ------------------------------ *)

DateError == [status |-> "error", error |-> "Date must be in YYYY-MM-DD format"]

Ok == [status |-> "ok"]

NotFound == [status |-> "not_found"]

\* what read_expense returns: cur.fetchone() as a dict, or not_found
ReadOutcome(rows, expense_id) ==
  IF SelectById(rows, expense_id) = {} THEN NotFound
  ELSE CHOOSE r \in SelectById(rows, expense_id) : TRUE

\* the default of an omitted subcategory or note
Default(arg) == IF arg = None THEN "" ELSE arg[1]

\* the fields list of update_expense is not empty
AnyField(args) ==
  \E f \in {"date", "amount", "category", "subcategory", "note"} :
    Truthy(f, args[f])

(* ------------------------------- queries ------------------------------ *)

\* x BETWEEN lo AND hi on TEXT values
Between(x, lo, hi) == TextLeq(lo, x) /\ TextLeq(x, hi)

\* the orders in which the elements of S can come out
Orderings(S) ==
  IF S = {} THEN {<< >>}
  ELSE {q \in [1..Cardinality(S) -> S] :
          \A i, j \in 1..Cardinality(S) : i # j => q[i] # q[j]}

\* WHERE date BETWEEN ? AND ?
InRange(rows, start, end) == {r \in rows : Between(r.date, start, end)}

\* ... ORDER BY date ASC: rows of equal date come in no promised order
ListResults(rows, start, end) ==
  {q \in Orderings(InRange(rows, start, end)) :
     \A i \in 1..(Len(q) - 1) : TextLeq(q[i].date, q[i + 1].date)}

RECURSIVE SumAmount(_)
\* SUM(amount)
SumAmount(rows) ==
  IF rows = {} THEN 0
  ELSE LET r == CHOOSE x \in rows : TRUE
       IN  r.amount + SumAmount(rows \ {r})

\* SELECT category, SUM(amount) AS total ... GROUP BY category
GroupByCategory(rows) ==
  {[category |-> c, total |-> SumAmount({r \in rows : r.category = c})] :
     c \in {r.category : r \in rows}}

\* ... ORDER BY total DESC: groups of equal total come in no promised order
OrderByTotalDesc(groups) ==
  {q \in Orderings(groups) :
     \A i \in 1..(Len(q) - 1) : q[i].total >= q[i + 1].total}

\* the range taken without its end date
SelectedBeforeEnd(rows, start, end, category) ==
  {r \in rows :
     /\ TextLeq(start, r.date)
     /\ TextLess(r.date, end)
     /\ Truthy("category", category) => r.category = category[1]}

\* the rows summarize's statement selects: the optional AND category=?
Selected(rows, start, end, category) ==
  {r \in InRange(rows, start, end) :
     Truthy("category", category) => r.category = category[1]}

\* LIMIT n + 1
LimitOneMore(q, n) ==
  IF n < 0 \/ n + 1 >= Len(q) THEN q ELSE SubSeq(q, 1, n + 1)

\* LIMIT n: a negative n is no limit
Limit(q, n) ==
  IF n < 0 \/ n >= Len(q) THEN q ELSE SubSeq(q, 1, n)

\* what list_expenses can return
ListOutcomes(rows, start, end) ==
  IF ~ValidDate(start) \/ ~ValidDate(end) THEN {DateError}
  ELSE {[rows |-> q] : q \in ListResults(rows, start, end)}

\* what summarize can return
SummarizeOutcomes(rows, start, end, category) ==
  IF ~ValidDate(start) \/ ~ValidDate(end) THEN {DateError}
  ELSE {[rows |-> q] :
          q \in OrderByTotalDesc(
                  GroupByCategory(Selected(rows, start, end, category)))}

\* what top_spending_categories can return
TopOutcomes(rows, start, end, limit) ==
  IF ~ValidDate(start) \/ ~ValidDate(end) THEN {DateError}
  ELSE {[rows |-> Limit(q, limit)] :
          q \in OrderByTotalDesc(GroupByCategory(InRange(rows, start, end)))}

\* f"{year}-{str(month).zfill(2)}-01" and "...-31"
MonthStart(year, month) ==
  Str(year) \o <<Dash>> \o Zfill(Str(month), 2) \o <<Dash, Zero, Zero + 1>>

MonthEnd(year, month) ==
  Str(year) \o <<Dash>> \o Zfill(Str(month), 2) \o <<Dash, Zero + 3, Zero + 1>>

RECURSIVE SumTotal(_)
\* sum(x["total"] for x in summary)
SumTotal(q) == IF q = << >> THEN 0 ELSE Head(q).total + SumTotal(Tail(q))

IsError(r) == "status" \in DOMAIN r /\ r.status = "error"

\* the comparison written total >= limit
BudgetResultAtLeast(summary, limit) ==
  IF IsError(summary)
  THEN [status |-> "error", error |-> "string indices must be integers"]
  ELSE [total_spent |-> SumTotal(summary.rows),
        budget_limit |-> limit,
        status |-> IF SumTotal(summary.rows) >= limit THEN "ALERT" ELSE "SAFE"]

\* budget_alert's result from what its call of summarize returned: the keys
\* of an error dict are strings, and x["total"] on a string raises TypeError
BudgetResult(summary, limit) ==
  IF IsError(summary)
  THEN [status |-> "error", error |-> "string indices must be integers"]
  ELSE [total_spent |-> SumTotal(summary.rows),
        budget_limit |-> limit,
        status |-> IF SumTotal(summary.rows) > limit THEN "ALERT" ELSE "SAFE"]

(* -------------------------------- tools ------------------------------- *)

Idle == [op |-> "idle"]

NoResult == [status |-> "idle"]

Init ==
  /\ store = {}
  /\ seq = 0
  /\ issued = << >>
  /\ call = Idle
  /\ result = NoResult
  /\ prev = {}

add_expense(date, amount, category, subcategory, note) ==
  /\ call = Idle
  /\ seq < MaxAdds
  /\ call' = [op |-> "add", date |-> date, amount |-> amount,
              category |-> category, subcategory |-> subcategory,
              note |-> note]
  /\ prev' = store
  /\ IF ~ValidDate(date)
     THEN /\ result' = DateError
          /\ UNCHANGED <<store, seq, issued>>
     ELSE /\ store' = InsertRow(store, seq, date, amount, category,
                                Default(subcategory), Default(note))
          /\ seq' = NextRowid(store, seq)
          /\ issued' = Append(issued, NextRowid(store, seq))
          /\ result' = [status |-> "ok", id |-> NextRowid(store, seq)]

read_expense(expense_id) ==
  /\ call = Idle
  /\ call' = [op |-> "read", id |-> expense_id]
  /\ prev' = store
  /\ result' = ReadOutcome(store, expense_id)
  /\ UNCHANGED <<store, seq, issued>>

update_expense(expense_id, args) ==
  /\ call = Idle
  /\ call' = [op |-> "update", id |-> expense_id, args |-> args]
  /\ prev' = store
  /\ IF Truthy("date", args.date) /\ ~ValidDate(args.date[1])
     THEN /\ result' = DateError
          /\ UNCHANGED store
     ELSE IF ~AnyField(args)
          THEN /\ result' = [status |-> "no_update_fields"]
               /\ UNCHANGED store
          ELSE /\ store' = UpdateRows(store, expense_id, args)
               /\ result' = Ok
  /\ UNCHANGED <<seq, issued>>

delete_expense(expense_id) ==
  /\ call = Idle
  /\ call' = [op |-> "delete", id |-> expense_id]
  /\ prev' = store
  /\ store' = DeleteRows(store, expense_id)
  /\ result' = Ok
  /\ UNCHANGED <<seq, issued>>

list_expenses(start_date, end_date) ==
  /\ call = Idle
  /\ call' = [op |-> "list", start |-> start_date, end |-> end_date]
  /\ prev' = store
  /\ \E o \in ListOutcomes(store, start_date, end_date) : result' = o
  /\ UNCHANGED <<store, seq, issued>>

summarize(start_date, end_date, category) ==
  /\ call = Idle
  /\ call' = [op |-> "summarize", start |-> start_date, end |-> end_date,
              category |-> category]
  /\ prev' = store
  /\ \E o \in SummarizeOutcomes(store, start_date, end_date, category) :
       result' = o
  /\ UNCHANGED <<store, seq, issued>>

monthly_report(year, month) ==
  /\ call = Idle
  /\ call' = [op |-> "monthly", year |-> year, month |-> month]
  /\ prev' = store
  /\ \E o \in SummarizeOutcomes(store, MonthStart(year, month),
                                MonthEnd(year, month), None) :
       result' = o
  /\ UNCHANGED <<store, seq, issued>>

top_spending_categories(start_date, end_date, limit) ==
  /\ call = Idle
  /\ call' = [op |-> "top", start |-> start_date, end |-> end_date,
              limit |-> limit]
  /\ prev' = store
  /\ \E o \in TopOutcomes(store, start_date, end_date, limit) : result' = o
  /\ UNCHANGED <<store, seq, issued>>

budget_alert(start_date, end_date, limit) ==
  /\ call = Idle
  /\ call' = [op |-> "budget", start |-> start_date, end |-> end_date,
              limit |-> limit]
  /\ prev' = store
  /\ \E summary \in SummarizeOutcomes(store, start_date, end_date, None) :
       result' = BudgetResult(summary, limit)
  /\ UNCHANGED <<store, seq, issued>>

\* the result goes back to the client and the server waits for the next call
Return ==
  /\ call # Idle
  /\ call' = Idle
  /\ result' = NoResult
  /\ prev' = {}
  /\ UNCHANGED <<store, seq, issued>>

AddStep ==
  \E d \in AddDates, a \in AddAmounts, c \in AddCategories,
     s \in AddSubcategories, n \in AddNotes :
    add_expense(d, a, c, s, n)

ReadStep == \E i \in Ids : read_expense(i)

UpdateStep == \E i \in Ids, args \in UpdateArgs : update_expense(i, args)

DeleteStep == \E i \in Ids : delete_expense(i)

ListStep == \E r \in Ranges : list_expenses(r[1], r[2])

SummarizeStep ==
  \E r \in Ranges, c \in SummarizeCategories : summarize(r[1], r[2], c)

MonthlyStep == \E y \in Years, m \in Months : monthly_report(y, m)

TopStep == \E r \in Ranges, n \in Limits : top_spending_categories(r[1], r[2], n)

BudgetStep == \E r \in Ranges, b \in Budgets : budget_alert(r[1], r[2], b)

Next ==
  \/ AddStep
  \/ ReadStep
  \/ UpdateStep
  \/ DeleteStep
  \/ ListStep
  \/ SummarizeStep
  \/ MonthlyStep
  \/ TopStep
  \/ BudgetStep
  \/ Return

Spec == Init /\ [][Next]_vars

(* ------------------------ vocabulary of the claims --------------------- *)

\* a calendar date as one number, for comparing dates as dates
CalKey(s) == Parsed(s).y * 10000 + Parsed(s).m * 100 + Parsed(s).d

CalLeq(a, b) == CalKey(a) <= CalKey(b)

Elems(q) == {q[i] : i \in 1..Len(q)}

IsRows(r) == "rows" \in DOMAIN r

TotalDescending(q) == \A i \in 1..(Len(q) - 1) : q[i].total >= q[i + 1].total

ValidRange(c) == ValidDate(c.start) /\ ValidDate(c.end)

\* a field of update_expense the caller supplied, whatever its value
Supplied(arg) == arg # None

(* -------------------------------- C1 ---------------------------------- *)

\* the record update_expense must leave under the claim: every supplied
\* field takes the supplied value, the others and the id stay
Written(old, args) ==
  [id |-> old.id,
   date |-> IF Supplied(args.date) THEN args.date[1] ELSE old.date,
   amount |-> IF Supplied(args.amount) THEN args.amount[1] ELSE old.amount,
   category |-> IF Supplied(args.category)
                THEN args.category[1] ELSE old.category,
   subcategory |-> IF Supplied(args.subcategory)
                   THEN args.subcategory[1] ELSE old.subcategory,
   note |-> IF Supplied(args.note) THEN args.note[1] ELSE old.note]

\* C1: update_expense on an existing id writes every field the caller
\* supplies, a supplied 0 or "" included, never answers no_update_fields
\* when a field was supplied, and leaves the other fields and the id alone.
C1_SuppliedFieldsAreWritten ==
  (/\ call.op = "update"
   /\ call.id \in RowIds(prev)
   /\ Supplied(call.args.date) => ValidDate(call.args.date[1])
   /\ \E f \in DOMAIN call.args : Supplied(call.args[f]))
  => /\ result = Ok
     /\ store = {IF r.id = call.id THEN Written(r, call.args) ELSE r :
                   r \in prev}

(* -------------------------------- C2 ---------------------------------- *)

\* the stored records whose date falls in a calendar month
InMonth(rows, year, month) ==
  {r \in rows : Parsed(r.date).y = year /\ Parsed(r.date).m = month}

\* C2: monthly_report(year, month) returns, for every month, the
\* per-category totals of the records dated in that calendar month, ordered
\* by total descending, and never an error result.
C2_MonthlyReportCoversTheMonth ==
  call.op = "monthly"
  => /\ ~IsError(result)
     /\ IsRows(result)
     /\ result.rows \in
          OrderByTotalDesc(GroupByCategory(InMonth(prev, call.year, call.month)))

(* -------------------------------- C3 ---------------------------------- *)

\* C3: list_expenses(start, end) with valid bounds returns all and only the
\* stored records whose calendar date lies in [start, end], each once, in
\* non-decreasing order of date.
C3_ListIsTheCalendarRange ==
  (call.op = "list" /\ ValidRange(call))
  => /\ IsRows(result)
     /\ Elems(result.rows) =
          {r \in prev : CalLeq(call.start, r.date) /\ CalLeq(r.date, call.end)}
     /\ Len(result.rows) = Cardinality(Elems(result.rows))
     /\ \A i \in 1..(Len(result.rows) - 1) :
          CalLeq(result.rows[i].date, result.rows[i + 1].date)

(* -------------------------------- C4 ---------------------------------- *)

\* the record a caller expects back for the add_expense call c
Inserted(c, id) ==
  [id |-> id, date |-> c.date, amount |-> c.amount, category |-> c.category,
   subcategory |-> IF c.subcategory = None THEN "" ELSE c.subcategory[1],
   note |-> IF c.note = None THEN "" ELSE c.note[1]]

C5_SummarizeTotalsTheListedRecords ==
  (call.op = "summarize" /\ call.category = None /\ ValidRange(call))
  => /\ IsRows(result)
     /\ TotalDescending(result.rows)
     /\ \A i, j \in 1..Len(result.rows) :
          i # j => result.rows[i].category # result.rows[j].category
     /\ \A listed \in ListOutcomes(prev, call.start, call.end) :
          /\ IsRows(listed)
          /\ {g.category : g \in Elems(result.rows)} =
               {r.category : r \in Elems(listed.rows)}
          /\ \A g \in Elems(result.rows) :
               g.total = SumAmount({r \in Elems(listed.rows) :
                                      r.category = g.category})

\* two categories with different totals are summarized
C5_Witness ==
  /\ call.op = "summarize"
  /\ call.category = None
  /\ IsRows(result)
  /\ Len(result.rows) = 2
  /\ result.rows[1].total > result.rows[2].total

(* -------------------------------- C6 ---------------------------------- *)

\* C6: for limit >= 0, top_spending_categories(start, end, limit) returns
\* the first min(limit, n) entries of a result of summarize(start, end), in
\* descending order of total, so never more than limit entries.
C6_TopIsAPrefixOfSummarize ==
  (call.op = "top" /\ call.limit >= 0 /\ ValidRange(call))
  => /\ IsRows(result)
     /\ Len(result.rows) <= call.limit
     /\ TotalDescending(result.rows)
     /\ \E s \in SummarizeOutcomes(prev, call.start, call.end, None) :
          /\ IsRows(s)
          /\ result.rows =
               SubSeq(s.rows, 1,
                      IF call.limit < Len(s.rows)
                      THEN call.limit ELSE Len(s.rows))

\* a limit of 1 cuts a summary of two categories
C6_Witness ==
  /\ call.op = "top"
  /\ call.limit = 1
  /\ IsRows(result)
  /\ Len(result.rows) = 1
  /\ Cardinality({r.category : r \in InRange(prev, call.start, call.end)}) = 2

(* -------------------------------- C7 ---------------------------------- *)

\* C7: delete_expense(id) returns ok for any id, stored or not; after it
\* read_expense(id) is not_found, a second delete_expense(id) changes
\* nothing, every other record is as before; an id without a record reads
\* not_found, and only an add_expense returning an id gives it a record.
C7_DeleteIsIdempotent ==
  /\ call.op = "delete"
     => /\ result = Ok
        /\ ReadOutcome(store, call.id) = NotFound
        /\ DeleteRows(store, call.id) = store
        /\ store = {r \in prev : r.id # call.id}
  /\ (call.op = "read" /\ call.id \notin RowIds(prev)) => result = NotFound
  /\ call.op # "idle"
     => \A i \in RowIds(store) \ RowIds(prev) :
          call.op = "add" /\ result = [status |-> "ok", id |-> i]

\* the record with the smaller id is deleted and the other one stays
C7_Witness ==
  /\ call.op = "delete"
  /\ call.id = 1
  /\ Cardinality(prev) = 2
  /\ Cardinality(store) = 1

(* -------------------------------- C8 ---------------------------------- *)

\* C8: with a valid range budget_alert returns as total_spent the sum of
\* the category totals of summarize(start, end), which is the sum of the
\* amounts in the range, and ALERT exactly when total_spent > limit, SAFE
\* otherwise, so SAFE when they are equal.
C8_AlertOnlyAboveTheLimit ==
  (call.op = "budget" /\ ValidRange(call))
  => /\ ~IsError(result)
     /\ \A s \in SummarizeOutcomes(prev, call.start, call.end, None) :
          IsRows(s) /\ result.total_spent = SumTotal(s.rows)
     /\ result.total_spent = SumAmount(InRange(prev, call.start, call.end))
     /\ result.budget_limit = call.limit
     /\ result.status = IF result.total_spent > call.limit
                        THEN "ALERT" ELSE "SAFE"

\* spending equal to the limit
C8_Witness ==
  /\ call.op = "budget"
  /\ ~IsError(result)
  /\ result.total_spent = call.limit
  /\ result.total_spent > 0
  /\ result.status = "SAFE"

(* -------------------------------- C9 ---------------------------------- *)

\* C9: stored ids are pairwise distinct, every id add_expense returns is
\* greater than all it returned before, also after the record with the
\* largest id was deleted, and update_expense changes no id.
C9_IdsAreNeverReused ==
  /\ \A r1, r2 \in store : r1.id = r2.id => r1 = r2
  /\ \A i, j \in 1..Len(issued) : i < j => issued[i] < issued[j]
  /\ call.op = "update"
     => /\ RowIds(store) = RowIds(prev)
        /\ Cardinality(store) = Cardinality(prev)

\* the only record was deleted and the next add_expense gets a new id
C9_Witness ==
  /\ call.op = "add"
  /\ result.status = "ok"
  /\ prev = {}
  /\ Len(issued) = 2

(* -------------------------------- C10 --------------------------------- *)

\* C10: add_expense or update_expense with a supplied date that is not a
\* valid date returns an error and changes nothing, so every stored date is
\* a valid date.
C10_InvalidDateIsRejected ==
  /\ (call.op = "add" /\ ~ValidDate(call.date))
     => (IsError(result) /\ store = prev)
  /\ (/\ call.op = "update"
      /\ Supplied(call.args.date)
      /\ ~ValidDate(call.args.date[1]))
     => (IsError(result) /\ store = prev)
  /\ \A r \in store : ValidDate(r.date)

====
